---- MODULE Spec2Model ----
(***************************************************************************)
(* Model of the jiplak-prompt single-page application.                     *)
(*                                                                         *)
(*   - Access gate (src/App.tsx): PIN login, manual logout, the session    *)
(*     restore effect that runs at (re)start, the expiry timers created    *)
(*     with setTimeout, the two sessionStorage entries and the tab guard.  *)
(*   - Edit history store (src/components/NanoBanana.tsx): history,        *)
(*     historyIndex, the asynchronous generate call, undo and redo, and    *)
(*     the translation of the edit prompt.                                 *)
(*   - Prompt assembly (src/App.tsx, src/components/PromptEditor.tsx):     *)
(*     the image upload with its FileReader, Image and describe            *)
(*     callbacks, the aspect-ratio helper, the effect that assembles the   *)
(*     final prompt, and the editor with manual edits and translation.     *)
(*   - Multi-image uploader (MultiImageUploader): its files, its previews  *)
(*     and the FileReader callbacks that fill the previews.                *)
(*                                                                         *)
(* Strings are sequences of one-character strings so that trim(),          *)
(* toString() and parseInt() are computed rather than assumed.             *)
(***************************************************************************)
EXTENDS Integers, Sequences, FiniteSets, Bags, TLC

(***************************************************************************)
(* Bounds of the model.                                                    *)
(***************************************************************************)
\* the clock runs from 0 to MaxClock ticks of TickMs milliseconds
MaxClock == 7
\* at most MaxTimers setTimeout callbacks are pending at once
MaxTimers == 2
\* the history holds at most MaxHistory snapshots
MaxHistory == 4
\* at most MaxFiles images are attached in the multi-image view
MaxFiles == 2
\* at most MaxLoads FileReader and Image callbacks are pending at once
MaxLoads == 1
\* at most MaxOrphans translations of unmounted prompt editors are in flight
MaxOrphans == 1
\* the aspect-ratio helper is tried on all images of 0..MaxDim pixels a side
MaxDim == 7

(***************************************************************************)
(* Program constants.                                                      *)
(***************************************************************************)
\* App.tsx:73 and App.tsx:79, 15 * 60 * 1000
SessionMs == 15 * 60 * 1000
\* granularity of the modelled clock: 5 minutes
TickMs == 5 * 60 * 1000

\* null for values that are plain strings
NoValue == "null"
\* an optional value: None, or Some(x)
None == <<>>
Some(x) == <<x>>

LimitedPin == <<"6", "9">>
FullPin == <<"2", "4">>
InvalidPinMessage == "Invalid PIN. Please try again."

\* the PINs typed into the PIN form: the two valid ones, blank ones, wrong
\* ones, and valid ones with white space around them
Pins ==
    { LimitedPin, FullPin,
      <<>>, <<" ">>, <<" ", " ">>,
      <<"6">>, <<"9", "6">>, <<"4", "2">>,
      <<"6", "9", " ">>, <<" ", "2", "4">> }

(***************************************************************************)
(* String helpers of the JavaScript runtime used by the code.              *)
(***************************************************************************)
IsSpace(c) == c = " "

RECURSIVE TrimStart(_)
TrimStart(s) ==
    IF s = <<>> THEN <<>>
    ELSE IF IsSpace(Head(s)) THEN TrimStart(Tail(s)) ELSE s

RECURSIVE TrimEnd(_)
TrimEnd(s) ==
    IF s = <<>> THEN <<>>
    ELSE IF IsSpace(s[Len(s)]) THEN TrimEnd(SubSeq(s, 1, Len(s) - 1)) ELSE s

\* String.prototype.trim
Trim(s) == TrimEnd(TrimStart(s))

DigitChars == <<"0", "1", "2", "3", "4", "5", "6", "7", "8", "9">>

\* Number.prototype.toString for a non-negative integer
RECURSIVE NumToString(_)
NumToString(n) ==
    IF n < 10 THEN <<DigitChars[n + 1]>>
    ELSE Append(NumToString(n \div 10), DigitChars[(n % 10) + 1])

DigitValue(c) == CHOOSE d \in 0..9 : DigitChars[d + 1] = c

IsDigit(c) == \E d \in 0..9 : DigitChars[d + 1] = c

\* parseInt(s, 10) on a string without sign: the leading digits, NaN if none
RECURSIVE ParseDigits(_, _)
ParseDigits(s, acc) ==
    IF s = <<>> \/ ~IsDigit(Head(s)) THEN acc
    ELSE ParseDigits(Tail(s), acc * 10 + DigitValue(Head(s)))

NaN == -1

ParseInt(s) ==
    LET t == TrimStart(s)
    IN  IF t = <<>> \/ ~IsDigit(Head(t)) THEN NaN ELSE ParseDigits(t, 0)

Infinity == -2

\* a / b on non-negative integers: NaN for 0 / 0, Infinity for x / 0, and
\* the quotient when b divides a (the integer part otherwise)
Quotient(a, b) ==
    IF b = 0 THEN (IF a = 0 THEN NaN ELSE Infinity) ELSE a \div b

\* the string a template literal `${x}` makes of a number
JsNumToString(x) ==
    IF x = NaN THEN <<"N", "a", "N">>
    ELSE IF x = Infinity THEN <<"I", "n", "f", "i", "n", "i", "t", "y">>
    ELSE NumToString(x)

(***************************************************************************)
(* State.                                                                  *)
(***************************************************************************)
VARIABLES
    authStatus,     \* App.tsx:16   'unauthenticated' | 'limited' | 'full'
    pinError,       \* App.tsx:17   string | null
    activeTab,      \* App.tsx:19   'jiplak' | 'nano'
    ssAuthStatus,   \* sessionStorage entry 'authStatus'
    ssExpiry,       \* sessionStorage entry 'sessionExpiry' (a decimal string)
    now,            \* Date.now()
    timers,         \* pending setTimeout(handleLogout, ...) callbacks, a bag
    files,          \* NanoBanana.tsx:9   the attached images, as reported
                    \* by the uploader
    uploaderFiles,  \* part_002:16  files of MultiImageUploader
    previews,       \* part_002:17  previews of MultiImageUploader
    fileReads,      \* part_002:36-40 images whose FileReader has not yet
                    \* called onloadend
    prompt,         \* NanoBanana.tsx:10
    isLoading,      \* NanoBanana.tsx:12
    error,          \* NanoBanana.tsx:15
    history,        \* NanoBanana.tsx:18
    historyIndex,   \* NanoBanana.tsx:19
    pending,        \* the generate call in flight with the values its closure captured
    nanoIsTranslating,      \* NanoBanana.tsx:13  isTranslating
    appIsLoading,           \* App.tsx:22  isLoading
    imageFile,              \* App.tsx:23
    imagePreview,           \* App.tsx:24
    detailedPrompt,         \* App.tsx:25  string | null
    subjectCount,           \* App.tsx:26
    finalPrompt,            \* App.tsx:27
    appError,               \* App.tsx:28  error
    aspectRatio,            \* App.tsx:29
    originalAspectRatio,    \* App.tsx:30  string | null
    useFaceReference,       \* App.tsx:31
    useSeparateReferences,  \* App.tsx:32
    currentPrompt,          \* PromptEditor.tsx:33
    editorIsTranslating,    \* PromptEditor.tsx:35  isTranslating
    describing,             \* the generateDetailedPrompt call in flight: its
                            \* file, and whether fileToGenerativePart reads it
    readers,                \* files whose FileReader has not yet called onloadend
    imgs,                   \* files whose Image has not yet called onload
    orphanTranslations,     \* translations in flight whose editor was unmounted
    lastOp          \* the operation that produced the current state

authVars == <<authStatus, pinError, activeTab, ssAuthStatus, ssExpiry, now, timers>>
uploaderVars == <<uploaderFiles, previews, fileReads>>
nanoVars == <<files, prompt, isLoading, error, history, historyIndex, pending,
              nanoIsTranslating, uploaderVars>>
appVars == <<appIsLoading, imageFile, imagePreview, detailedPrompt, subjectCount,
             appError, aspectRatio, originalAspectRatio, useFaceReference,
             useSeparateReferences, describing, readers, imgs>>
editorVars == <<currentPrompt, editorIsTranslating, orphanTranslations>>
jiplakVars == <<appVars, finalPrompt, editorVars>>
vars == <<authStatus, pinError, activeTab, ssAuthStatus, ssExpiry, now, timers,
          files, uploaderFiles, previews, fileReads,
          prompt, isLoading, error, history, historyIndex, pending,
          nanoIsTranslating,
          appIsLoading, imageFile, imagePreview, detailedPrompt, subjectCount,
          finalPrompt, appError, aspectRatio, originalAspectRatio,
          useFaceReference, useSeparateReferences, currentPrompt,
          editorIsTranslating, describing, readers, imgs, orphanTranslations,
          lastOp>>

\* lastOp names the operation and its argument: a plain string (str), a
\* string or list of strings (seq) or a timer; for a PIN submission seq is
\* the PIN and str the tab that was selected before it
NoTimer == [at |-> 0, by |-> NoValue, loggedOut |-> FALSE]
Op(name) == [op |-> name, str |-> NoValue, seq |-> <<>>, timer |-> NoTimer]
OpStr(name, s) == [op |-> name, str |-> s, seq |-> <<>>, timer |-> NoTimer]
OpSeq(name, q) == [op |-> name, str |-> NoValue, seq |-> q, timer |-> NoTimer]
OpTimer(name, t) == [op |-> name, str |-> NoValue, seq |-> <<>>, timer |-> t]

(***************************************************************************)
(* Access gate: helpers.                                                   *)
(***************************************************************************)
\* a timer created by setTimeout(handleLogout, delay) at time t.  Two fields
\* only record where it comes from: by is the place that created it ("pin":
\* App.tsx:79, "restore": App.tsx:54) and loggedOut tells that the session
\* that created it was ended by a manual logout
Timer(t, delay, by) == [at |-> t + delay, by |-> by, loggedOut |-> FALSE]

\* setTimeout(handleLogout, delay) called at time t
SetTimeout_Forgotten(ts, t, delay, by) == ts
SetTimeout(ts, t, delay, by) == ts (+) SetToBag({Timer(t, delay, by)})

\* App.tsx:73  const expiry = Date.now() + 15 * 60 * 1000
LimitedExpiry(t) == t + SessionMs

\* App.tsx:79  the delay passed to setTimeout at PIN login
LimitedTimeout_Seconds == 15 * 60
LimitedTimeout == SessionMs

\* App.tsx:53  const timeout = expiryTime - now
RestoreTimeout_Full(expiryTime, t) == SessionMs
RestoreTimeout(expiryTime, t) == expiryTime - t

\* App.tsx:361 the nano tab button is disabled in a limited session
NanoTabDisabled_Never(auth) == FALSE
NanoTabDisabled(auth) == auth = "limited"

\* App.tsx:65-69 the tab guard effect, run after every render
TabGuard(auth, tab) == IF auth = "limited" /\ tab = "nano" THEN "jiplak" ELSE tab

\* App.tsx:319-321 and 364: NanoBanana is mounted only behind the gate, on its tab
NanoMounted(auth, tab) == auth # "unauthenticated" /\ tab = "nano"

\* the expiry time of the running limited session, as persisted
SessionExpiry == IF ssExpiry = None THEN NaN ELSE ParseInt(ssExpiry[1])

\* the pending timers that the running limited session created
SessionTimers ==
    {t \in BagToSet(timers) : t.at = SessionExpiry /\ ~t.loggedOut}

\* the pending timers once the running session has been logged out by hand
\* (App.tsx:37-41: handleLogout calls no clearTimeout, the session's timer
\* stays pending and is only marked as left behind by a manual logout)
TimersAfterManualLogout ==
    IF authStatus = "limited" /\ SessionTimers # {}
    THEN LET t == CHOOSE x \in SessionTimers : TRUE
         IN  (timers (-) SetToBag({t})) (+) SetToBag({[t EXCEPT !.loggedOut = TRUE]})
    ELSE timers

(***************************************************************************)
(* Edit history store: helpers.                                            *)
(***************************************************************************)
\* the content parts of a provider response: a part with text, a part with
\* inline image data, or a part with neither (geminiService.ts:143-150)
PartKinds == {"text", "image", "other"}
\* the non-empty responses of the provider that are modelled
Responses == { <<"image">>, <<"text", "image">>, <<"other">> }
NanoPrompts == {<<>>, <<" ">>, <<"a">>}
EmptyContentMessage ==
    "The model did not return any content. The request may have been blocked."
TransportMessage == "RESOURCE_EXHAUSTED"
QuotaMessage == "Anda telah melebihi batas penggunaan gratis untuk fitur ini."

\* NanoBanana.tsx:21  history[historyIndex] ?? []   (historyIndex is 0-based)
currentResults ==
    IF historyIndex >= 0 /\ historyIndex < Len(history)
    THEN history[historyIndex + 1] ELSE <<>>

\* NanoBanana.tsx:22
canUndo_FromFirst == historyIndex >= 0
canUndo == historyIndex > 0

\* NanoBanana.tsx:23
canRedo == historyIndex < Len(history) - 1

\* NanoBanana.tsx:202 the results panel, with the undo and redo buttons
ResultsPanelShown == Len(currentResults) > 0

\* geminiService.ts:142-151 the parts kept in the output
IsOutputPart(k) == k \in {"text", "image"}
NanoOutput(parts) == SelectSeq(parts, IsOutputPart)

\* NanoBanana.tsx:86  [...history.slice(0, historyIndex + 1), generatedResults]
NewHistory(h, i, results) ==
    Append(SubSeq(h, 1, IF i + 1 > Len(h) THEN Len(h) ELSE i + 1), results)

\* the images picked in the multi-image uploader
UploadedFiles == { "a", "b" }

\* part_002:38-40 reader.result of readAsDataURL(file)
DataUrl(f) == <<"data:", f>>

Range(q) == { q[i] : i \in 1..Len(q) }

\* part_002:52-53 list.filter((_, index) => index !== indexToRemove)
Without(q, indexToRemove) ==
    LET Keep == { i \in 1..Len(q) : i - 1 # indexToRemove }
        F[i \in 0..Len(q)] ==
            IF i = 0 THEN <<>>
            ELSE IF i \in Keep THEN Append(F[i - 1], q[i]) ELSE F[i - 1]
    IN  F[Len(q)]

\* NanoBanana.tsx:9-19 the state of a freshly mounted NanoBanana
NanoReset ==
    /\ files' = <<>>
    /\ uploaderFiles' = <<>>
    /\ previews' = <<>>
    /\ fileReads' = {}
    /\ prompt' = <<>>
    /\ isLoading' = FALSE
    /\ error' = NoValue
    /\ history' = <<>>
    /\ historyIndex' = -1
    /\ pending' = None
    /\ nanoIsTranslating' = FALSE

\* the NanoBanana state after a step that leaves the gate at auth and tab
NanoAfter(auth, tab) ==
    IF NanoMounted(auth, tab) THEN UNCHANGED nanoVars ELSE NanoReset

(***************************************************************************)
(* Prompt assembly: helpers.                                               *)
(***************************************************************************)
\* the images that are uploaded: a name, and the size the browser reports
\* for the decoded image (img.width, img.height)
Files ==
    { [name |-> "wide",   width |-> 1920, height |-> 1080],
      [name |-> "square", width |-> 500,  height |-> 500],
      [name |-> "empty",  width |-> 0,    height |-> 0] }

\* the images on which the aspect-ratio helper is tried
RatioFiles ==
    Files \cup { [name |-> "grid", width |-> w, height |-> h] :
                     w \in 0..MaxDim, h \in 0..MaxDim }

\* the answers of generateDetailedPrompt that pass its validation
\* (geminiService.ts:80: prompt is a string, subjectCount a number)
DescribeResponses ==
    { [prompt |-> <<"X">>,           subjectCount |-> 1],
      [prompt |-> <<"X">>,           subjectCount |-> 2],
      [prompt |-> <<" ", "X", " ">>, subjectCount |-> 0],
      [prompt |-> <<" ">>,           subjectCount |-> 2],
      [prompt |-> <<>>,              subjectCount |-> 1] }

\* geminiService.ts:88 the message of every failure of generateDetailedPrompt
DescribeFailedMessage ==
    "Failed to generate a detailed prompt. Please check the console for more details."

\* geminiService.ts:81 the answer is JSON of another shape
InvalidStructureMessage == "Invalid JSON structure received from the AI."

\* geminiService.ts:77 JSON.parse of an answer without text (blocked content)
NoJsonMessage == "\"undefined\" is not valid JSON"

\* what is thrown inside generateDetailedPrompt: the provider's quota error
\* (geminiService.ts:60), a blocked answer (77), a malformed one (81)
DescribeErrors == { TransportMessage, NoJsonMessage, InvalidStructureMessage }

\* geminiService.ts:86-89: the catch of generateDetailedPrompt replaces
\* whatever was thrown
DescribeRethrown(raw) == DescribeFailedMessage

\* App.tsx:142 the message handleImageUpload shows for the error it caught
DescribeErrorShown(raw) == DescribeRethrown(raw)

\* PromptEditor.tsx:66 and NanoBanana.tsx:53, with targetLang at its initial 'ID'
TranslationFailedMessage == "Translation to ID failed."

\* texts typed into the prompt editor, and texts the translation model returns
EditedPrompts == { <<"Y">>, <<>> }
TranslatedTexts == { <<"T", " ">> }

\* AspectRatioSelector.tsx:9
RATIOS ==
    { <<"1", ":", "1">>, <<"1", "6", ":", "9">>, <<"9", ":", "1", "6">>,
      <<"4", ":", "3">>, <<"3", ":", "4">> }
\* App.tsx:29 the initial aspectRatio
Original == <<"O", "r", "i", "g", "i", "n", "a", "l">>

\* App.tsx:35
RECURSIVE gcd(_, _)
gcd_First(a, b) == a
gcd(a, b) == IF b = 0 THEN a ELSE gcd(b, a % b)

\* App.tsx:127-128  `${img.width / commonDivisor}:${img.height / commonDivisor}`
AspectRatioOf(width, height) ==
    LET commonDivisor == gcd(width, height)
    IN  JsNumToString(Quotient(width, commonDivisor)) \o <<":">>
            \o JsNumToString(Quotient(height, commonDivisor))

\* a string | null value is truthy when it is a non-empty string
Truthy(v) == v # None /\ v[1] # <<>>

\* the fixed texts of the face clauses; each is one element of the string
\* (none of them begins or ends with white space)
SingleSubjectClause ==
    <<"(Do not change facial details from the description; use the provided reference photo to accurately transfer the subject's face and hair, maintaining realistic skin texture and a photorealistic quality).">>
MultiSubjectHead ==
    <<"The final image must perfectly replicate the described scene, including the exact poses, body language, interactions, and relative positions of all subjects. (Do not change facial details; ">>
MultiSubjectTail ==
    <<", ensuring their facial features and hair are accurately transferred while maintaining a photorealistic and cohesive look).">>
SeparateReferencePhrase ==
    <<"use a separate face reference for each corresponding person">>
SharedReferencePhrase ==
    <<"use the provided reference photos for each person">>

\* App.tsx:161-163
FaceRefInstruction_Shared(useSeparate) == SharedReferencePhrase
FaceRefInstruction(useSeparate) ==
    IF useSeparate THEN SeparateReferencePhrase ELSE SharedReferencePhrase

\* App.tsx:158-169 the description with the face clause
WithFaceClause_Always(description, count, useFace, useSeparate) ==
    description \o <<" ">> \o SingleSubjectClause
WithFaceClause(description, count, useFace, useSeparate) ==
    IF useFace THEN
        IF count > 1
        THEN description \o <<" ">> \o MultiSubjectHead
                 \o FaceRefInstruction(useSeparate) \o MultiSubjectTail
        ELSE description \o <<" ">> \o SingleSubjectClause
    ELSE description

\* App.tsx:171
CurrentAr_Selected(ratio, originalRatio) == Some(ratio)
CurrentAr(ratio, originalRatio) ==
    IF ratio = Original THEN originalRatio ELSE Some(ratio)

\* App.tsx:174  ` --ar `
ArFlag == <<" ", "-", "-", "a", "r", " ">>

\* App.tsx:152-178 the body of the prompt assembly effect: the value it
\* gives to finalPrompt
AssemblePrompt(description, count, ratio, originalRatio, useFace, useSeparate) ==
    IF ~Truthy(description) THEN <<>>
    ELSE LET withClause == WithFaceClause(description[1], count, useFace, useSeparate)
             currentAr == CurrentAr(ratio, originalRatio)
         IN  IF Truthy(currentAr) /\ currentAr[1] # Original
             THEN Trim(withClause \o ArFlag \o currentAr[1])
             ELSE Trim(withClause)

\* App.tsx:180 the dependency list of the effect
AssemblyDeps ==
    <<detailedPrompt, subjectCount, aspectRatio, originalAspectRatio,
      useFaceReference, useSeparateReferences>>

\* finalPrompt after a handler that leaves it at fromHandler: the effect
\* runs after the render if one of its dependencies changed
AssemblyEffect(fromHandler) ==
    finalPrompt' =
        IF AssemblyDeps' # AssemblyDeps
        THEN AssemblePrompt(detailedPrompt', subjectCount', aspectRatio',
                            originalAspectRatio', useFaceReference',
                            useSeparateReferences')
        ELSE fromHandler

\* App.tsx:182-301 and 319-364: what the JIPLAK_PROMPT tab renders
JiplakView(auth, tab, loading, err, description, preview) ==
    IF auth = "unauthenticated" \/ tab # "jiplak" THEN "none"
    ELSE IF loading THEN "loader"
    ELSE IF err # NoValue THEN "error"
    ELSE IF Truthy(description) /\ preview # None THEN "editor"
    ELSE "uploader"

View ==
    JiplakView(authStatus, activeTab, appIsLoading, appError, detailedPrompt,
               imagePreview)

\* PromptEditor.tsx:33-40: the state of the prompt editor after a step.  A
\* mounted editor follows its prompt prop, a newly mounted one starts from
\* it, and the translation of an editor that is unmounted stays in flight;
\* orphans is the number of such translations the step itself leaves (the
\* runs hold at most MaxOrphans of them)
EditorAfter(orphans) ==
    LET was == View = "editor"
        is == JiplakView(authStatus', activeTab', appIsLoading', appError',
                         detailedPrompt', imagePreview') = "editor"
    IN  IF is THEN
            /\ currentPrompt' = IF was /\ finalPrompt' = finalPrompt
                                THEN currentPrompt ELSE finalPrompt'
            /\ editorIsTranslating' = (was /\ editorIsTranslating)
            /\ orphanTranslations' = orphans
        ELSE
            /\ editorIsTranslating => orphans < MaxOrphans
            /\ currentPrompt' = <<>>
            /\ editorIsTranslating' = FALSE
            /\ orphanTranslations' =
                   orphans + (IF editorIsTranslating THEN 1 ELSE 0)

\* App.tsx:92-104 (setFinalPrompt('') is part of the assembly effect below)
resetState ==
    /\ appIsLoading' = FALSE
    /\ imageFile' = None
    /\ imagePreview' = None
    /\ detailedPrompt' = None
    /\ subjectCount' = 0
    /\ appError' = NoValue
    /\ aspectRatio' = Original
    /\ originalAspectRatio' = None
    /\ useFaceReference' = TRUE
    /\ useSeparateReferences' = TRUE

\* the state of the JIPLAK_PROMPT feature when App mounts (App.tsx:22-32),
\* with no callback pending
JiplakReset ==
    /\ resetState
    /\ finalPrompt' = <<>>
    /\ describing' = None
    /\ readers' = {}
    /\ imgs' = {}
    /\ currentPrompt' = <<>>
    /\ editorIsTranslating' = FALSE
    /\ orphanTranslations' = 0

\* the JIPLAK_PROMPT feature after a step of the access gate or of the tabs:
\* the state of App stays, the prompt editor is mounted or unmounted
JiplakAfter_Cancels == JiplakReset
JiplakAfter ==
    /\ UNCHANGED <<appVars, finalPrompt>>
    /\ EditorAfter(orphanTranslations)

(***************************************************************************)
(* Initial state: a fresh browser tab, empty sessionStorage.               *)
(***************************************************************************)
Init ==
    /\ authStatus = "unauthenticated"
    /\ pinError = NoValue
    /\ activeTab = "jiplak"
    /\ ssAuthStatus = NoValue
    /\ ssExpiry = None
    /\ now = 0
    /\ timers = EmptyBag
    /\ files = <<>>
    /\ uploaderFiles = <<>>
    /\ previews = <<>>
    /\ fileReads = {}
    /\ prompt = <<>>
    /\ isLoading = FALSE
    /\ error = NoValue
    /\ history = <<>>
    /\ historyIndex = -1
    /\ pending = None
    /\ nanoIsTranslating = FALSE
    /\ appIsLoading = FALSE
    /\ imageFile = None
    /\ imagePreview = None
    /\ detailedPrompt = None
    /\ subjectCount = 0
    /\ finalPrompt = <<>>
    /\ appError = NoValue
    /\ aspectRatio = Original
    /\ originalAspectRatio = None
    /\ useFaceReference = TRUE
    /\ useSeparateReferences = TRUE
    /\ currentPrompt = <<>>
    /\ editorIsTranslating = FALSE
    /\ describing = None
    /\ readers = {}
    /\ imgs = {}
    /\ orphanTranslations = 0
    /\ lastOp = Op("init")

(***************************************************************************)
(* Access gate: operations.                                                *)
(***************************************************************************)
\* App.tsx:37-41
handleLogout_KeepsExpiry ==
    /\ ssAuthStatus' = NoValue
    /\ ssExpiry' = ssExpiry
    /\ authStatus' = "unauthenticated"
handleLogout ==
    /\ ssAuthStatus' = NoValue
    /\ ssExpiry' = None
    /\ authStatus' = "unauthenticated"

\* App.tsx:71-90
handlePinSubmit(pin) ==
    IF pin = LimitedPin THEN
        /\ ssAuthStatus' = "limited"
        /\ ssExpiry' = Some(NumToString(LimitedExpiry(now)))
        /\ authStatus' = "limited"
        /\ activeTab' = TabGuard("limited", "jiplak")
        /\ pinError' = NoValue
        /\ timers' = SetTimeout(timers, now, LimitedTimeout, "pin")
    ELSE IF pin = FullPin THEN
        /\ ssAuthStatus' = "full"
        /\ ssExpiry' = None
        /\ authStatus' = "full"
        /\ pinError' = NoValue
        /\ UNCHANGED <<activeTab, timers>>
    ELSE
        /\ pinError' = InvalidPinMessage
        /\ UNCHANGED <<ssAuthStatus, ssExpiry, authStatus, activeTab, timers>>

\* part_000:11-16  PinAuth.handleSubmit calls onPinSubmit only if pin.trim()
PinAuthSubmits_Untrimmed(pin) == pin # <<>>
PinAuthSubmits(pin) == Trim(pin) # <<>>

\* the PIN form is submitted with pin typed in (part_000:27, App.tsx:320)
PinSubmit(pin) ==
    /\ authStatus = "unauthenticated"
    /\ pin = LimitedPin => BagCardinality(timers) < MaxTimers
    /\ IF PinAuthSubmits(pin)
       THEN handlePinSubmit(pin)
       ELSE UNCHANGED <<ssAuthStatus, ssExpiry, authStatus, activeTab, pinError, timers>>
    /\ NanoAfter(authStatus', activeTab')
    /\ JiplakAfter
    /\ UNCHANGED now
    /\ lastOp' = [OpSeq("pinSubmit", pin) EXCEPT !.str = activeTab]

\* the Logout button (App.tsx:345-354)
ManualLogout_ToFirstTab ==
    /\ authStatus # "unauthenticated"
    /\ handleLogout
    /\ timers' = TimersAfterManualLogout
    /\ NanoReset
    /\ activeTab' = "jiplak"
    /\ UNCHANGED <<pinError, now>>
    /\ JiplakAfter
    /\ lastOp' = OpStr("logout", authStatus)
ManualLogout ==
    /\ authStatus # "unauthenticated"
    /\ handleLogout
    /\ timers' = TimersAfterManualLogout
    /\ NanoReset
    /\ UNCHANGED <<pinError, activeTab, now>>
    /\ JiplakAfter
    /\ lastOp' = OpStr("logout", authStatus)

\* a pending timer comes due and runs handleLogout (App.tsx:54, App.tsx:79)
FireTimer(t) ==
    /\ BagIn(t, timers)
    /\ now >= t.at
    /\ timers' = timers (-) SetToBag({t})
    /\ handleLogout
    /\ NanoReset
    /\ UNCHANGED <<pinError, activeTab, now>>
    /\ JiplakAfter
    /\ lastOp' = OpTimer("timer", t)

\* App.tsx:43-63 the session restore effect, run once when App mounts
RestoreSession ==
    LET storedStatus == ssAuthStatus
        storedExpiry == ssExpiry
    IN  IF storedStatus # NoValue THEN
            IF storedStatus = "limited" /\ storedExpiry # None /\ storedExpiry[1] # <<>> THEN
                LET expiryTime == ParseInt(storedExpiry[1])
                IN  IF now < expiryTime THEN
                        /\ authStatus' = "limited"
                        /\ timers' = SetTimeout(EmptyBag, now, RestoreTimeout(expiryTime, now), "restore")
                        /\ UNCHANGED <<ssAuthStatus, ssExpiry>>
                    ELSE
                        /\ handleLogout
                        /\ timers' = EmptyBag
            ELSE IF storedStatus = "full" THEN
                /\ authStatus' = "full"
                /\ timers' = EmptyBag
                /\ UNCHANGED <<ssAuthStatus, ssExpiry>>
            ELSE
                /\ authStatus' = "unauthenticated"
                /\ timers' = EmptyBag
                /\ UNCHANGED <<ssAuthStatus, ssExpiry>>
        ELSE
            /\ authStatus' = "unauthenticated"
            /\ timers' = EmptyBag
            /\ UNCHANGED <<ssAuthStatus, ssExpiry>>

\* the page is reloaded: component state and timers are gone, sessionStorage
\* is kept, App mounts with its initial state (App.tsx:16-19) and the restore
\* effect runs
Restart ==
    /\ RestoreSession
    /\ pinError' = NoValue
    /\ activeTab' = TabGuard(authStatus', "jiplak")
    /\ NanoReset
    /\ JiplakReset
    /\ UNCHANGED now
    /\ lastOp' = OpStr("restart", ssAuthStatus)

\* a tab button is clicked (App.tsx:303-317, 359-362)
SelectTab(tab) ==
    /\ authStatus # "unauthenticated"
    /\ ~(tab = "nano" /\ NanoTabDisabled(authStatus))
    /\ activeTab' = TabGuard(authStatus, tab)
    /\ NanoAfter(authStatus, activeTab')
    /\ UNCHANGED <<authStatus, pinError, ssAuthStatus, ssExpiry, now, timers>>
    /\ JiplakAfter
    /\ lastOp' = OpStr("selectTab", tab)

\* time passes
Tick ==
    /\ now < MaxClock * TickMs
    /\ now' = now + TickMs
    /\ UNCHANGED <<authStatus, pinError, activeTab, ssAuthStatus, ssExpiry, timers>>
    /\ UNCHANGED nanoVars
    /\ UNCHANGED jiplakVars
    /\ lastOp' = Op("tick")

(***************************************************************************)
(* Edit history store: operations of the mounted NanoBanana view.          *)
(***************************************************************************)
\* part_002:20-43 with NanoBanana.tsx:26-28: processFiles takes the image f,
\* one that is not attached yet: it joins the files of the uploader and of
\* the parent, and its FileReader is started
AddFile(f) ==
    /\ NanoMounted(authStatus, activeTab)
    /\ f \notin Range(uploaderFiles) \cup fileReads
    /\ Len(uploaderFiles) + 1 <= MaxFiles
    /\ uploaderFiles' = Append(uploaderFiles, f)
    /\ files' = uploaderFiles'
    /\ fileReads' = fileReads \cup {f}
    /\ UNCHANGED <<previews, prompt, isLoading, error, history, historyIndex,
                   pending, nanoIsTranslating>>
    /\ UNCHANGED authVars
    /\ UNCHANGED jiplakVars
    /\ lastOp' = OpStr("addFile", f)

\* part_002:37-39: reader.onloadend of the image f appends its preview
FileReadEnd(f) ==
    /\ f \in fileReads
    /\ fileReads' = fileReads \ {f}
    /\ previews' = Append(previews, DataUrl(f))
    /\ UNCHANGED <<files, uploaderFiles, prompt, isLoading, error, history,
                   historyIndex, pending, nanoIsTranslating>>
    /\ UNCHANGED authVars
    /\ UNCHANGED jiplakVars
    /\ lastOp' = OpStr("fileReadEnd", f)

\* part_002:51-57 with NanoBanana.tsx:26-28: the remove button of the preview
\* at index indexToRemove (part_002:100-105, one button per preview)
RemoveFile(indexToRemove) ==
    /\ NanoMounted(authStatus, activeTab)
    /\ indexToRemove \in 0..(Len(previews) - 1)
    /\ uploaderFiles' = Without(uploaderFiles, indexToRemove)
    /\ previews' = Without(previews, indexToRemove)
    /\ files' = uploaderFiles'
    /\ UNCHANGED <<fileReads, prompt, isLoading, error, history, historyIndex,
                   pending, nanoIsTranslating>>
    /\ UNCHANGED authVars
    /\ UNCHANGED jiplakVars
    /\ lastOp' = OpStr("removeFile", NumToString(indexToRemove)[1])

\* NanoBanana.tsx:40-42; the textarea is disabled while loading or
\* translating (line 142)
handlePromptChange(text) ==
    /\ NanoMounted(authStatus, activeTab)
    /\ ~isLoading
    /\ ~nanoIsTranslating
    /\ prompt' = text
    /\ UNCHANGED <<files, isLoading, error, history, historyIndex, pending,
                   nanoIsTranslating>>
    /\ UNCHANGED uploaderVars
    /\ UNCHANGED authVars
    /\ UNCHANGED jiplakVars
    /\ lastOp' = OpSeq("promptChange", text)

\* NanoBanana.tsx:44-48: the Translate button (disabled while loading or
\* translating or with a blank prompt, line 154) starts translateText
nanoHandleTranslate ==
    /\ NanoMounted(authStatus, activeTab)
    /\ ~isLoading
    /\ ~nanoIsTranslating
    /\ Trim(prompt) # <<>>
    /\ nanoIsTranslating' = TRUE
    /\ UNCHANGED <<files, prompt, isLoading, error, history, historyIndex, pending>>
    /\ UNCHANGED uploaderVars
    /\ UNCHANGED authVars
    /\ UNCHANGED jiplakVars
    /\ lastOp' = Op("nanoTranslate")

\* NanoBanana.tsx:49-51 and 54-56 with geminiService.ts:106: translateText
\* returned the text `raw` of the model, trimmed
NanoTranslateSucceeds(raw) ==
    /\ nanoIsTranslating
    /\ prompt' = Trim(raw)
    /\ nanoIsTranslating' = FALSE
    /\ UNCHANGED <<files, isLoading, error, history, historyIndex, pending>>
    /\ UNCHANGED uploaderVars
    /\ UNCHANGED authVars
    /\ UNCHANGED jiplakVars
    /\ lastOp' = OpSeq("nanoTranslated", raw)

\* NanoBanana.tsx:52-56: translateText threw, a toast tells it
NanoTranslateFails ==
    /\ nanoIsTranslating
    /\ nanoIsTranslating' = FALSE
    /\ UNCHANGED <<files, prompt, isLoading, error, history, historyIndex, pending>>
    /\ UNCHANGED uploaderVars
    /\ UNCHANGED authVars
    /\ UNCHANGED jiplakVars
    /\ lastOp' = OpStr("nanoTranslateFailed", TranslationFailedMessage)

\* NanoBanana.tsx:59-70: the Generate button (disabled while loading or
\* translating, line 187) is clicked; after validation the call to
\* generateWithNanoBanana is started with the history and historyIndex of
\* this render captured in its closure
handleSubmit ==
    /\ NanoMounted(authStatus, activeTab)
    /\ ~isLoading
    /\ ~nanoIsTranslating
    /\ historyIndex + 2 <= MaxHistory
    /\ IF Len(files) = 0 THEN
            /\ UNCHANGED nanoVars
            /\ lastOp' = OpStr("submitRejected", "Please upload at least one image.")
       ELSE IF Trim(prompt) = <<>> THEN
            /\ UNCHANGED nanoVars
            /\ lastOp' = OpStr("submitRejected", "Please enter a prompt to describe your edit.")
       ELSE
            /\ isLoading' = TRUE
            /\ error' = NoValue
            /\ pending' = Some([history |-> history, historyIndex |-> historyIndex])
            /\ UNCHANGED <<files, prompt, history, historyIndex, nanoIsTranslating>>
            /\ UNCHANGED uploaderVars
            /\ lastOp' = Op("submit")
    /\ UNCHANGED authVars
    /\ UNCHANGED jiplakVars

\* NanoBanana.tsx:85-90 and 101-103 with geminiService.ts:142-153:
\* generateWithNanoBanana returned the output made of the content parts
GenerateSucceeds(parts) ==
    /\ pending # None
    /\ history' = NewHistory(pending[1].history, pending[1].historyIndex, NanoOutput(parts))
    /\ historyIndex' = Len(history') - 1
    /\ isLoading' = FALSE
    /\ pending' = None
    /\ UNCHANGED <<files, prompt, error, nanoIsTranslating>>
    /\ UNCHANGED uploaderVars
    /\ UNCHANGED authVars
    /\ UNCHANGED jiplakVars
    /\ lastOp' = OpSeq("generated", parts)

\* NanoBanana.tsx:95-97 the message shown for a failed call
FriendlyMessage_Silent(raw) == NoValue
FriendlyMessage(raw) == IF raw = TransportMessage THEN QuotaMessage ELSE raw

\* NanoBanana.tsx:91-103 with geminiService.ts:154-158: generateWithNanoBanana
\* threw an error with the message raw
GenerateFails(raw) ==
    /\ pending # None
    /\ error' = FriendlyMessage(raw)
    /\ isLoading' = FALSE
    /\ pending' = None
    /\ UNCHANGED <<files, prompt, history, historyIndex, nanoIsTranslating>>
    /\ UNCHANGED uploaderVars
    /\ UNCHANGED authVars
    /\ UNCHANGED jiplakVars
    /\ lastOp' = OpStr("generateFailed", raw)

\* geminiService.ts:137-140: a response without content parts is an error
ThrowsOnNoParts_Never(parts) == FALSE
ThrowsOnNoParts(parts) == Len(parts) = 0

\* the provider answered the generate call with the content parts `parts`
ProviderReturns(parts) ==
    IF ThrowsOnNoParts(parts)
    THEN GenerateFails(EmptyContentMessage)
    ELSE GenerateSucceeds(parts)

\* the generate call itself failed (quota, network)
ProviderRejects == GenerateFails(TransportMessage)

\* NanoBanana.tsx:106-110
UndoIndex_Unchecked(i) == i - 1
UndoIndex(i) == IF canUndo THEN i - 1 ELSE i

\* NanoBanana.tsx:112-116
RedoIndex(i) == IF canRedo THEN i + 1 ELSE i

\* the undo button of the results panel (NanoBanana.tsx:202-209) is
\* clicked; it is disabled unless canUndo, and handleUndo tests canUndo again
handleUndo ==
    /\ NanoMounted(authStatus, activeTab)
    /\ ResultsPanelShown
    /\ historyIndex' = UndoIndex(historyIndex)
    /\ UNCHANGED <<files, prompt, isLoading, error, history, pending,
                   nanoIsTranslating>>
    /\ UNCHANGED uploaderVars
    /\ UNCHANGED authVars
    /\ UNCHANGED jiplakVars
    /\ lastOp' = Op("undo")

\* the redo button (NanoBanana.tsx:210-214), disabled unless canRedo
handleRedo ==
    /\ NanoMounted(authStatus, activeTab)
    /\ ResultsPanelShown
    /\ historyIndex' = RedoIndex(historyIndex)
    /\ UNCHANGED <<files, prompt, isLoading, error, history, pending,
                   nanoIsTranslating>>
    /\ UNCHANGED uploaderVars
    /\ UNCHANGED authVars
    /\ UNCHANGED jiplakVars
    /\ lastOp' = Op("redo")

(***************************************************************************)
(* Prompt assembly: operations of the JIPLAK_PROMPT tab.                   *)
(***************************************************************************)
\* App.tsx:106-136: a file is chosen in the uploader (ImageUploader.tsx:18-28);
\* handleImageUpload starts the FileReader and the describe call
Upload(f) ==
    /\ View = "uploader"
    /\ Cardinality(readers) + Cardinality(imgs) < MaxLoads
    /\ appIsLoading' = TRUE
    /\ appError' = NoValue
    /\ detailedPrompt' = None
    /\ subjectCount' = 0
    /\ imageFile' = Some(f)
    /\ readers' = readers \cup {f}
    /\ describing' = Some([file |-> f, reading |-> TRUE])
    /\ UNCHANGED <<imagePreview, aspectRatio, originalAspectRatio,
                   useFaceReference, useSeparateReferences, imgs>>
    /\ AssemblyEffect(<<>>)
    /\ UNCHANGED authVars
    /\ EditorAfter(orphanTranslations)
    /\ UNCHANGED nanoVars
    /\ lastOp' = OpStr("upload", f.name)

\* App.tsx:120-133: reader.onloadend sets the preview and starts decoding it
ReaderLoadEnd(f) ==
    /\ f \in readers
    /\ readers' = readers \ {f}
    /\ imagePreview' = Some(f)
    /\ imgs' = imgs \cup {f}
    /\ UNCHANGED <<appIsLoading, imageFile, detailedPrompt, subjectCount, appError,
                   aspectRatio, originalAspectRatio, useFaceReference,
                   useSeparateReferences, describing>>
    /\ AssemblyEffect(finalPrompt)
    /\ UNCHANGED authVars
    /\ EditorAfter(orphanTranslations)
    /\ UNCHANGED nanoVars
    /\ lastOp' = OpStr("readerLoadEnd", f.name)

\* App.tsx:126-131: img.onload stores the reduced ratio of the decoded image
ImgOnload(f) ==
    /\ f \in imgs
    /\ imgs' = imgs \ {f}
    /\ originalAspectRatio' = Some(AspectRatioOf(f.width, f.height))
    /\ aspectRatio' = Original
    /\ UNCHANGED <<appIsLoading, imageFile, imagePreview, detailedPrompt,
                   subjectCount, appError, useFaceReference,
                   useSeparateReferences, describing, readers>>
    /\ AssemblyEffect(finalPrompt)
    /\ UNCHANGED authVars
    /\ EditorAfter(orphanTranslations)
    /\ UNCHANGED nanoVars
    /\ lastOp' = OpStr("imgOnload", f.name)

\* geminiService.ts:4-16 and 34: the FileReader of fileToGenerativePart
\* called onloadend; generateDetailedPrompt goes on to the provider
PartLoadEnd ==
    /\ describing # None
    /\ describing[1].reading
    /\ describing' = Some([describing[1] EXCEPT !.reading = FALSE])
    /\ UNCHANGED <<appIsLoading, imageFile, imagePreview, detailedPrompt,
                   subjectCount, appError, aspectRatio, originalAspectRatio,
                   useFaceReference, useSeparateReferences, readers, imgs>>
    /\ UNCHANGED <<finalPrompt, editorVars>>
    /\ UNCHANGED authVars
    /\ UNCHANGED nanoVars
    /\ lastOp' = OpStr("partLoadEnd", describing[1].file.name)

\* App.tsx:137-140 and 147-149: generateDetailedPrompt returned resp
DescribeSucceeds(resp) ==
    /\ describing # None
    /\ ~describing[1].reading
    /\ describing' = None
    /\ detailedPrompt' = Some(resp.prompt)
    /\ subjectCount' = resp.subjectCount
    /\ appIsLoading' = FALSE
    /\ UNCHANGED <<imageFile, imagePreview, appError, aspectRatio,
                   originalAspectRatio, useFaceReference, useSeparateReferences,
                   readers, imgs>>
    /\ AssemblyEffect(finalPrompt)
    /\ UNCHANGED authVars
    /\ EditorAfter(orphanTranslations)
    /\ UNCHANGED nanoVars
    /\ lastOp' = OpSeq("described", resp.prompt)

\* App.tsx:141-149: generateDetailedPrompt threw (geminiService.ts:86-89)
\* after raw was thrown inside it
DescribeFails(raw) ==
    /\ describing # None
    /\ ~describing[1].reading
    /\ describing' = None
    /\ appError' = DescribeErrorShown(raw)
    /\ imagePreview' = None
    /\ imageFile' = None
    /\ appIsLoading' = FALSE
    /\ UNCHANGED <<detailedPrompt, subjectCount, aspectRatio, originalAspectRatio,
                   useFaceReference, useSeparateReferences, readers, imgs>>
    /\ AssemblyEffect(finalPrompt)
    /\ UNCHANGED authVars
    /\ EditorAfter(orphanTranslations)
    /\ UNCHANGED nanoVars
    /\ lastOp' = [OpStr("describeFailed", DescribeErrorShown(raw))
                      EXCEPT !.seq = <<raw>>]

\* "Try Again" of the error box (App.tsx:196) or the clear button of the
\* editor view (App.tsx:208, handleImageUpload(null)): resetState
ResetClicked ==
    /\ View \in {"error", "editor"}
    /\ resetState
    /\ UNCHANGED <<describing, readers, imgs>>
    /\ AssemblyEffect(<<>>)
    /\ UNCHANGED authVars
    /\ EditorAfter(orphanTranslations)
    /\ UNCHANGED nanoVars
    /\ lastOp' = OpStr("reset", View)

\* App.tsx:223-229 the face reference checkbox
ToggleFaceReference ==
    /\ View = "editor"
    /\ useFaceReference' = ~useFaceReference
    /\ UNCHANGED <<appIsLoading, imageFile, imagePreview, detailedPrompt,
                   subjectCount, appError, aspectRatio, originalAspectRatio,
                   useSeparateReferences, describing, readers, imgs>>
    /\ AssemblyEffect(finalPrompt)
    /\ UNCHANGED authVars
    /\ EditorAfter(orphanTranslations)
    /\ UNCHANGED nanoVars
    /\ lastOp' = Op("toggleFaceReference")

\* App.tsx:241-249 the separate references checkbox, rendered only for
\* several subjects with the face reference on
ToggleSeparateReferences ==
    /\ View = "editor"
    /\ subjectCount > 1
    /\ useFaceReference
    /\ useSeparateReferences' = ~useSeparateReferences
    /\ UNCHANGED <<appIsLoading, imageFile, imagePreview, detailedPrompt,
                   subjectCount, appError, aspectRatio, originalAspectRatio,
                   useFaceReference, describing, readers, imgs>>
    /\ AssemblyEffect(finalPrompt)
    /\ UNCHANGED authVars
    /\ EditorAfter(orphanTranslations)
    /\ UNCHANGED nanoVars
    /\ lastOp' = Op("toggleSeparateReferences")

\* App.tsx:264 a button of the AspectRatioSelector (AspectRatioSelector.tsx:18)
SelectRatio(ratio) ==
    /\ View = "editor"
    /\ aspectRatio' = ratio
    /\ UNCHANGED <<appIsLoading, imageFile, imagePreview, detailedPrompt,
                   subjectCount, appError, originalAspectRatio, useFaceReference,
                   useSeparateReferences, describing, readers, imgs>>
    /\ AssemblyEffect(finalPrompt)
    /\ UNCHANGED authVars
    /\ EditorAfter(orphanTranslations)
    /\ UNCHANGED nanoVars
    /\ lastOp' = OpSeq("selectRatio", ratio)

\* PromptEditor.tsx:49-53 with App.tsx:272: text is typed into the editor
\* (disabled while translating, PromptEditor.tsx:94)
handleTextChange(text) ==
    /\ View = "editor"
    /\ ~editorIsTranslating
    /\ currentPrompt' = text
    /\ finalPrompt' = text
    /\ UNCHANGED <<appVars, editorIsTranslating, orphanTranslations>>
    /\ UNCHANGED authVars
    /\ UNCHANGED nanoVars
    /\ lastOp' = OpSeq("textChange", text)

\* PromptEditor.tsx:55-58: the Translate button starts translateText
editorHandleTranslate ==
    /\ View = "editor"
    /\ ~editorIsTranslating
    /\ Trim(currentPrompt) # <<>>
    /\ editorIsTranslating' = TRUE
    /\ UNCHANGED <<appVars, finalPrompt, currentPrompt, orphanTranslations>>
    /\ UNCHANGED authVars
    /\ UNCHANGED nanoVars
    /\ lastOp' = Op("translate")

\* PromptEditor.tsx:59-64 and 67-69 with geminiService.ts:106: the
\* translation of the mounted editor returned the text raw, trimmed
TranslateSucceeds(raw) ==
    /\ editorIsTranslating
    /\ currentPrompt' = Trim(raw)
    /\ finalPrompt' = Trim(raw)
    /\ editorIsTranslating' = FALSE
    /\ UNCHANGED <<appVars, orphanTranslations>>
    /\ UNCHANGED authVars
    /\ UNCHANGED nanoVars
    /\ lastOp' = OpSeq("translated", raw)

\* PromptEditor.tsx:65-69: the translation threw, a toast tells it
TranslateFails ==
    /\ editorIsTranslating
    /\ editorIsTranslating' = FALSE
    /\ UNCHANGED <<appVars, finalPrompt, currentPrompt, orphanTranslations>>
    /\ UNCHANGED authVars
    /\ UNCHANGED nanoVars
    /\ lastOp' = OpStr("translateFailed", TranslationFailedMessage)

\* PromptEditor.tsx:59-64 for an editor that was unmounted meanwhile: its
\* own state is gone, onPromptChange still is App's setFinalPrompt
OrphanTranslateSucceeds(raw) ==
    /\ orphanTranslations > 0
    /\ finalPrompt' = Trim(raw)
    /\ UNCHANGED appVars
    /\ UNCHANGED authVars
    /\ EditorAfter(orphanTranslations - 1)
    /\ UNCHANGED nanoVars
    /\ lastOp' = OpSeq("orphanTranslated", raw)

\* PromptEditor.tsx:65-69 for an editor that was unmounted meanwhile
OrphanTranslateFails ==
    /\ orphanTranslations > 0
    /\ orphanTranslations' = orphanTranslations - 1
    /\ UNCHANGED <<appVars, finalPrompt, currentPrompt, editorIsTranslating>>
    /\ UNCHANGED authVars
    /\ UNCHANGED nanoVars
    /\ lastOp' = OpStr("orphanTranslateFailed", TranslationFailedMessage)

(***************************************************************************)
(* Specifications.                                                         *)
(***************************************************************************)
\* the access gate: logins, logouts, restarts, timers, tabs and the clock
Next ==
    \/ \E pin \in Pins : PinSubmit(pin)
    \/ ManualLogout
    \/ \E t \in BagToSet(timers) : FireTimer(t)
    \/ Restart
    \/ \E tab \in {"jiplak", "nano"} : SelectTab(tab)
    \/ Tick

Spec == Init /\ [][Next]_vars

\* the access gate with timers that fire once they are due
FairSpec == Spec /\ WF_vars(\E t \in BagToSet(timers) : FireTimer(t))

\* the multi-image view behind a full login
NextNano ==
    \/ PinSubmit(FullPin)
    \/ ManualLogout
    \/ \E tab \in {"jiplak", "nano"} : SelectTab(tab)
    \/ AddFile("a")
    \/ \E f \in fileReads : FileReadEnd(f)
    \/ \E i \in 0..(Len(previews) - 1) : RemoveFile(i)
    \/ \E text \in NanoPrompts : handlePromptChange(text)
    \/ handleSubmit
    \/ nanoHandleTranslate
    \/ \E raw \in TranslatedTexts : NanoTranslateSucceeds(raw)
    \/ NanoTranslateFails
    \/ \E parts \in Responses \cup {<<>>} : ProviderReturns(parts)
    \/ ProviderRejects
    \/ handleUndo
    \/ handleRedo

SpecNano == Init /\ [][NextNano]_vars

\* the ratios that are selected in the runs
SelectedRatios == { <<"1", "6", ":", "9">>, <<"1", ":", "1">> }

\* the JIPLAK_PROMPT tab behind a full login
NextJiplak ==
    \/ PinSubmit(FullPin)
    \/ ManualLogout
    \/ \E f \in Files : Upload(f)
    \/ \E f \in readers : ReaderLoadEnd(f)
    \/ \E f \in imgs : ImgOnload(f)
    \/ PartLoadEnd
    \/ \E resp \in DescribeResponses : DescribeSucceeds(resp)
    \/ \E raw \in DescribeErrors : DescribeFails(raw)
    \/ ResetClicked
    \/ ToggleFaceReference
    \/ ToggleSeparateReferences
    \/ \E ratio \in SelectedRatios : SelectRatio(ratio)
    \/ \E text \in EditedPrompts : handleTextChange(text)
    \/ editorHandleTranslate
    \/ \E raw \in TranslatedTexts : TranslateSucceeds(raw)
    \/ TranslateFails
    \/ \E raw \in TranslatedTexts : OrphanTranslateSucceeds(raw)
    \/ OrphanTranslateFails

SpecJiplak == Init /\ [][NextJiplak]_vars

\* the aspect-ratio helper on the images of RatioFiles
NextRatio ==
    \/ PinSubmit(FullPin)
    \/ \E f \in RatioFiles : Upload(f)
    \/ \E f \in readers : ReaderLoadEnd(f)
    \/ \E f \in imgs : ImgOnload(f)
    \/ PartLoadEnd
    \/ DescribeSucceeds([prompt |-> <<"X">>, subjectCount |-> 1])

SpecRatio == Init /\ [][NextRatio]_vars

\* the three remote calls (describe, translate, generate) of both tabs
\* behind a full login, each with its success and its failure
NextCalls ==
    \/ PinSubmit(FullPin)
    \/ \E tab \in {"jiplak", "nano"} : SelectTab(tab)
    \/ Upload([name |-> "wide", width |-> 1920, height |-> 1080])
    \/ \E f \in readers : ReaderLoadEnd(f)
    \/ \E f \in imgs : ImgOnload(f)
    \/ PartLoadEnd
    \/ DescribeSucceeds([prompt |-> <<"X">>, subjectCount |-> 2])
    \/ DescribeFails(NoJsonMessage)
    \/ ResetClicked
    \/ SelectRatio(<<"1", "6", ":", "9">>)
    \/ handleTextChange(<<"Y">>)
    \/ editorHandleTranslate
    \/ \E raw \in TranslatedTexts : TranslateSucceeds(raw)
    \/ TranslateFails
    \/ \E raw \in TranslatedTexts : OrphanTranslateSucceeds(raw)
    \/ OrphanTranslateFails
    \/ AddFile("a")
    \/ handlePromptChange(<<"a">>)
    \/ nanoHandleTranslate
    \/ \E raw \in TranslatedTexts : NanoTranslateSucceeds(raw)
    \/ NanoTranslateFails
    \/ handleSubmit
    \/ \E parts \in {<<"image">>, <<>>} : ProviderReturns(parts)
    \/ ProviderRejects
    \/ handleUndo

SpecCalls == Init /\ [][NextCalls]_vars

\* the JIPLAK_PROMPT tab under both logins, logout, session expiry and tab
\* switches, with one image and one answer
NextSession ==
    \/ \E pin \in {LimitedPin, FullPin} : PinSubmit(pin)
    \/ ManualLogout
    \/ \E t \in BagToSet(timers) : FireTimer(t)
    \/ \E tab \in {"jiplak", "nano"} : SelectTab(tab)
    \/ Tick
    \/ Upload([name |-> "wide", width |-> 1920, height |-> 1080])
    \/ \E f \in readers : ReaderLoadEnd(f)
    \/ \E f \in imgs : ImgOnload(f)
    \/ PartLoadEnd
    \/ DescribeSucceeds([prompt |-> <<"X">>, subjectCount |-> 2])
    \/ DescribeFails(TransportMessage)
    \/ ResetClicked
    \/ ToggleFaceReference
    \/ SelectRatio(<<"1", "6", ":", "9">>)
    \/ handleTextChange(<<"Y">>)

SpecSession == Init /\ [][NextSession]_vars

\* the multi-image uploader with several images, read in any order
NextUploader ==
    \/ PinSubmit(FullPin)
    \/ ManualLogout
    \/ \E tab \in {"jiplak", "nano"} : SelectTab(tab)
    \/ \E f \in UploadedFiles : AddFile(f)
    \/ \E f \in fileReads : FileReadEnd(f)
    \/ \E i \in 0..(Len(previews) - 1) : RemoveFile(i)
    \/ \E text \in NanoPrompts : handlePromptChange(text)

SpecUploader == Init /\ [][NextUploader]_vars

(***************************************************************************)
(* Properties of the access gate.                                          *)
(***************************************************************************)
\* fifteen minutes in milliseconds, as the specification words the expiry
FifteenMinutes == 900000

IsPinSubmit(op, pin) == op.op = "pinSubmit" /\ op.seq = pin

\* C1: a full session has no expiry: PIN "24" from Unauthenticated gives
\* FullActive with no sessionExpiry persisted, and a FullActive session
\* returns to Unauthenticated only through a manual logout.
C1_FullSessionEndsOnlyByLogout ==
    [][ /\ (authStatus = "unauthenticated" /\ IsPinSubmit(lastOp', FullPin))
              => (authStatus' = "full" /\ ssExpiry' = None)
        /\ (authStatus = "full" /\ authStatus' # "full")
              => lastOp'.op = "logout" ]_vars

\* C2: the expiry timer of a Limited session is cancelled on manual logout:
\* no timer whose session was logged out by hand ever fires.
C2_LoggedOutTimerNeverFires ==
    [][ lastOp'.op = "timer" => ~lastOp'.timer.loggedOut ]_vars

\* C3: a LimitedActive session leaves that state only by manual logout or
\* when its own expiry E is reached: it is never ended while now < E otherwise.
C3_LimitedEndsOnlyAtExpiry ==
    [][ (authStatus = "limited" /\ authStatus' # "limited")
            => (lastOp'.op = "logout" \/ now' >= SessionExpiry) ]_vars

\* C4: with timers that fire once due, a LimitedActive session whose expiry
\* time is reached eventually reverts to Unauthenticated, whether it was
\* started by PIN or restored from the persisted entries.
LimitedExpired == authStatus = "limited" /\ now >= SessionExpiry
C4_ExpiredSessionReverts == LimitedExpired ~> (authStatus = "unauthenticated")

\* witness of C4: a restored session has just been ended by its own timer
C4_Witness ==
    /\ lastOp.op = "timer"
    /\ lastOp.timer.by = "restore"
    /\ ~lastOp.timer.loggedOut
    /\ now >= lastOp.timer.at
    /\ authStatus = "unauthenticated"

\* C5: from Unauthenticated, PIN "69" gives LimitedActive with expiry
\* now + 15 minutes, persists authStatus = limited and sessionExpiry = that
\* timestamp, schedules the automatic logout for that instant and clears
\* the PIN error.
C5_LimitedLogin ==
    [][ (authStatus = "unauthenticated" /\ IsPinSubmit(lastOp', LimitedPin))
            => LET expiry == now + FifteenMinutes
                   timer == [at |-> expiry, by |-> "pin", loggedOut |-> FALSE]
               IN  /\ authStatus' = "limited"
                   /\ ssAuthStatus' = "limited"
                   /\ ssExpiry' # None
                   /\ ParseInt(ssExpiry'[1]) = expiry
                   /\ CopiesIn(timer, timers') = CopiesIn(timer, timers) + 1
                   /\ BagCardinality(timers') = BagCardinality(timers) + 1
                   /\ pinError' = NoValue ]_vars

\* witness of C5: a limited session entered by PIN at a time later than 0
C5_Witness ==
    /\ IsPinSubmit(lastOp, LimitedPin)
    /\ authStatus = "limited"
    /\ now > 0
    /\ SessionExpiry = now + FifteenMinutes
    /\ pinError = NoValue

\* C6 as stated: from Unauthenticated, any PIN other than "69" and "24"
\* leaves the state Unauthenticated with a reported authentication error and
\* changes neither the persisted entries nor the timers.
C6_AnyOtherPinReportsError ==
    [][ (authStatus = "unauthenticated" /\ lastOp'.op = "pinSubmit"
            /\ lastOp'.seq \notin {LimitedPin, FullPin})
            => /\ authStatus' = "unauthenticated"
               /\ pinError' = InvalidPinMessage
               /\ UNCHANGED <<ssAuthStatus, ssExpiry, timers>> ]_vars

\* C6 amended: a PIN other than "69" and "24" that is not blank leaves the
\* state Unauthenticated with the error reported; a blank PIN (empty or only
\* white space) is not submitted and changes nothing, the error included;
\* neither changes the persisted entries or the timers.
IsBlank(pin) == \A i \in 1..Len(pin) : pin[i] = " "
C6_WrongPinReportsError ==
    [][ (authStatus = "unauthenticated" /\ lastOp'.op = "pinSubmit"
            /\ lastOp'.seq \notin {LimitedPin, FullPin})
            => /\ authStatus' = "unauthenticated"
               /\ pinError' = IF IsBlank(lastOp'.seq) THEN pinError ELSE InvalidPinMessage
               /\ UNCHANGED <<ssAuthStatus, ssExpiry, timers>> ]_vars

\* witness of C6: a wrong PIN that is not blank has been rejected
C6_Witness ==
    /\ lastOp.op = "pinSubmit"
    /\ lastOp.seq \notin {LimitedPin, FullPin}
    /\ ~IsBlank(lastOp.seq)
    /\ authStatus = "unauthenticated"
    /\ pinError = InvalidPinMessage

\* C7: on (re)start the state is rebuilt from the persisted entries only if
\* not expired: full gives FullActive; limited with now < sessionExpiry gives
\* LimitedActive with one timer for the remaining time; limited with
\* now >= sessionExpiry gives Unauthenticated with both entries cleared;
\* every other case gives Unauthenticated.
C7_Restore ==
    [][ lastOp'.op = "restart" =>
          IF ssAuthStatus = "full" THEN
              authStatus' = "full" /\ UNCHANGED <<ssAuthStatus, ssExpiry>>
          ELSE IF ssAuthStatus = "limited" /\ ssExpiry # None THEN
              IF now < SessionExpiry THEN
                  /\ authStatus' = "limited"
                  /\ UNCHANGED <<ssAuthStatus, ssExpiry>>
                  /\ BagCardinality(timers') = 1
                  /\ \A t \in BagToSet(timers') : t.at - now' = SessionExpiry - now
              ELSE
                  /\ authStatus' = "unauthenticated"
                  /\ ssAuthStatus' = NoValue
                  /\ ssExpiry' = None
          ELSE authStatus' = "unauthenticated" ]_vars

\* witness of C7: a limited session restored with less than the full
\* fifteen minutes remaining
C7_Witness ==
    /\ lastOp.op = "restart"
    /\ authStatus = "limited"
    /\ now < SessionExpiry
    /\ SessionExpiry - now < FifteenMinutes
    /\ \E t \in BagToSet(timers) : t.by = "restore" /\ t.at = SessionExpiry

\* C8: the nano tab is reachable only in FullActive: in a Limited session
\* the active tab is never nano, the nano selector is never activated, and
\* entering LimitedActive leaves jiplak as the active tab.
C8_NanoOnlyInFull ==
    /\ [](authStatus = "limited" => activeTab # "nano")
    /\ [][ ~(authStatus = "limited" /\ lastOp'.op = "selectTab"
               /\ lastOp'.str = "nano") ]_vars
    /\ [][ (authStatus # "limited" /\ authStatus' = "limited")
               => activeTab' = "jiplak" ]_vars

\* witness of C8: a limited session entered by PIN while nano was the
\* selected tab, now on the jiplak tab
C8_Witness ==
    /\ IsPinSubmit(lastOp, LimitedPin)
    /\ lastOp.str = "nano"
    /\ authStatus = "limited"
    /\ activeTab = "jiplak"

\* C9: the persisted entries agree with the tier: authStatus is absent
\* exactly when the tier is Unauthenticated and otherwise equals the tier,
\* sessionExpiry is present only for a limited session, and both entries
\* are cleared by manual logout and by expiry.
PersistedAgrees ==
    /\ (ssAuthStatus = NoValue) <=> (authStatus = "unauthenticated")
    /\ ssAuthStatus # NoValue => ssAuthStatus = authStatus
    /\ ssExpiry # None => authStatus = "limited"
C9_PersistedAgreesWithTier ==
    /\ []PersistedAgrees
    /\ [][ lastOp'.op \in {"logout", "timer"}
               => (ssAuthStatus' = NoValue /\ ssExpiry' = None) ]_vars

\* witness of C9: a limited session has been logged out by hand
C9_Witness ==
    /\ lastOp.op = "logout"
    /\ lastOp.str = "limited"
    /\ ssAuthStatus = NoValue
    /\ ssExpiry = None
    /\ authStatus = "unauthenticated"

(***************************************************************************)
(* Properties of the edit history store.                                   *)
(***************************************************************************)
\* C10 as stated: the history cursor always satisfies
\* 0 <= cursor <= length - 1.
C10_CursorAlwaysInRange ==
    0 <= historyIndex /\ historyIndex <= Len(history) - 1

\* C10 amended: once the history is not empty the cursor satisfies
\* 0 <= cursor <= length - 1 and current() is the snapshot at the cursor;
\* while the history is empty the cursor is -1 and current() is empty.
C10_CursorInRange ==
    IF history = <<>>
    THEN historyIndex = -1 /\ currentResults = <<>>
    ELSE /\ 0 <= historyIndex
         /\ historyIndex <= Len(history) - 1
         /\ currentResults = history[historyIndex + 1]

\* witness of C10: two undos have moved the cursor back to the first of
\* three snapshots
C10_Witness ==
    /\ lastOp.op = "undo"
    /\ Len(history) = 3
    /\ historyIndex = 0

\* C11: push discards every snapshot after the current cursor, appends the
\* new snapshot and sets the cursor to the new last index, keeping all
\* snapshots up to the cursor unchanged (push(A), push(B), push(C), undo,
\* undo, push(D) gives history [A, D] with cursor 1).  The current cursor is
\* the one of the step that performs the push.
C11_PushTruncatesAtCursor ==
    [][ lastOp'.op = "generated"
            => /\ history' = Append(SubSeq(history, 1, historyIndex + 1),
                                    NanoOutput(lastOp'.seq))
               /\ historyIndex' = Len(history') - 1 ]_vars

\* C12: undo and redo only move the cursor, by exactly one step and only
\* inside the history: undo decrements the cursor when cursor > 0 and is a
\* no-op otherwise, redo increments it when cursor < length-1 and is a no-op
\* otherwise, and neither changes the list of snapshots.
C12_UndoRedoMoveCursorOnly ==
    [][ /\ lastOp'.op = "undo"
              => /\ history' = history
                 /\ historyIndex' = IF historyIndex > 0
                                    THEN historyIndex - 1 ELSE historyIndex
                 /\ historyIndex' \in 0..(Len(history) - 1)
        /\ lastOp'.op = "redo"
              => /\ history' = history
                 /\ historyIndex' = IF historyIndex < Len(history) - 1
                                    THEN historyIndex + 1 ELSE historyIndex
                 /\ historyIndex' \in 0..(Len(history) - 1) ]_vars

\* an undo that was a no-op: the only snapshot is still the current one
C12_Witness ==
    /\ lastOp.op = "undo"
    /\ Len(history) = 1
    /\ historyIndex = 0

\* C13: when the provider returns zero content parts for the generate call,
\* the call fails with an error that is shown to the user (never a push),
\* and the history and its cursor are left as they were: the step changes
\* neither, and the history is the one the submission started from.
C13_ZeroPartsFailsWithoutPush ==
    [][ /\ ~(lastOp'.op = "generated" /\ lastOp'.seq = <<>>)
        /\ (lastOp'.op = "generateFailed" /\ lastOp'.str = EmptyContentMessage)
              => /\ error' = EmptyContentMessage
                 /\ ~isLoading'
                 /\ history' = history
                 /\ historyIndex' = historyIndex
                 /\ history' = pending[1].history ]_vars

\* the empty response arrived for a submission made with two snapshots stored
C13_Witness ==
    /\ lastOp.op = "generateFailed"
    /\ lastOp.str = EmptyContentMessage
    /\ error = EmptyContentMessage
    /\ Len(history) = 2
    /\ historyIndex = 0

(***************************************************************************)
(* Properties of the remote calls.                                         *)
(***************************************************************************)
\* the feature state a failed call must leave alone: the prompt context, the
\* prompt texts, the history and its cursor
FeatureState ==
    <<detailedPrompt, subjectCount, aspectRatio, originalAspectRatio,
      useFaceReference, useSeparateReferences, finalPrompt, currentPrompt,
      prompt, history, historyIndex>>

\* C14: for each of the three remote operations (describe, translate,
\* generate), a failure is caught at the call site, produces a notice for
\* the user (lastOp.str is the text of the toast; describe and generate also
\* store it in their error field) and leaves the prompt context, the prompt
\* texts, the history and the cursor unchanged, the busy flag returning to
\* idle.
C14_FailuresLeaveStateIntact ==
    [][ /\ lastOp'.op = "describeFailed"
              => /\ appError' = lastOp'.str
                 /\ appError' # NoValue
                 /\ ~appIsLoading'
                 /\ describing' = None
                 /\ UNCHANGED FeatureState
        /\ lastOp'.op = "translateFailed"
              => /\ lastOp'.str # NoValue
                 /\ ~editorIsTranslating'
                 /\ UNCHANGED FeatureState
        /\ lastOp'.op = "orphanTranslateFailed"
              => /\ lastOp'.str # NoValue
                 /\ UNCHANGED FeatureState
        /\ lastOp'.op = "nanoTranslateFailed"
              => /\ lastOp'.str # NoValue
                 /\ ~nanoIsTranslating'
                 /\ UNCHANGED FeatureState
        /\ lastOp'.op = "generateFailed"
              => /\ error' # NoValue
                 /\ ~isLoading'
                 /\ pending' = None
                 /\ UNCHANGED FeatureState ]_vars

\* a describe call failed while the ratio of an image was in the context
C14_Witness ==
    /\ lastOp.op = "describeFailed"
    /\ appError = DescribeFailedMessage
    /\ originalAspectRatio # None
    /\ ~appIsLoading

(***************************************************************************)
(* Properties of the prompt assembly.                                      *)
(***************************************************************************)
\* the step runs the assembly effect with a description present (an empty
\* description counts as none, App.tsx:153)
Assembles == AssemblyDeps' # AssemblyDeps /\ Truthy(detailedPrompt')

\* the value of the aspect directive after the step; None if there is none
DirectiveValue ==
    LET value == IF aspectRatio' = Original
                 THEN originalAspectRatio' ELSE Some(aspectRatio')
    IN  IF value # None /\ value[1] # <<>> /\ value[1] # Original
        THEN value ELSE None

\* the text "--ar <value>" of the directive
DirectiveText(value) == <<"-", "-", "a", "r", " ">> \o value

\* the number of places where the flag --ar begins in s
ArFlags(s) ==
    Cardinality({ i \in 1..(Len(s) - 3) :
                      SubSeq(s, i, i + 3) = <<"-", "-", "a", "r">> })

\* the number of face clauses in s
FaceClauses(s) ==
    Cardinality({ i \in 1..Len(s) :
                      s[i] \in {SingleSubjectClause[1], MultiSubjectHead[1]} })

\* s is head, then " --ar <value>" when a directive applies, the white
\* space at both ends of the whole removed
IsHeadThenDirective(s, head) ==
    IF DirectiveValue = None
    THEN s = Trim(head) /\ ArFlags(s) = 0
    ELSE LET text == DirectiveText(DirectiveValue[1])
             n == Len(s) - Len(text)
         IN  /\ n >= 0
             /\ SubSeq(s, n + 1, Len(s)) = text
             /\ SubSeq(s, 1, n) = TrimStart(head \o <<" ">>)
             /\ ArFlags(s) = 1

\* C15 as stated: when useFaceReference is false, the assembled prompt is
\* the description verbatim (no face clause and no other alteration of the
\* description text), followed by the aspect directive when one applies.
C15_DescriptionVerbatim ==
    [][ (Assembles /\ ~useFaceReference')
            => finalPrompt' =
                   detailedPrompt'[1]
                       \o (IF DirectiveValue = None THEN <<>>
                           ELSE <<" ">> \o DirectiveText(DirectiveValue[1])) ]_vars

\* C15: when useFaceReference is false and a description is present, the
\* assembled prompt is the description followed by the aspect directive
\* when one applies, with the white space at both ends of the whole
\* removed; there is no face clause and no other alteration.
C15_DescriptionTrimmed ==
    [][ (Assembles /\ ~useFaceReference')
            => /\ finalPrompt' =
                      Trim(detailedPrompt'[1]
                               \o (IF DirectiveValue = None THEN <<>>
                                   ELSE <<" ">> \o DirectiveText(DirectiveValue[1])))
               /\ FaceClauses(finalPrompt') = 0 ]_vars

\* the face reference was switched off for a description with white space
\* around it while the ratio of the image applied
C15_Witness ==
    /\ lastOp.op = "toggleFaceReference"
    /\ ~useFaceReference
    /\ detailedPrompt = Some(<<" ", "X", " ">>)
    /\ aspectRatio = Original
    /\ originalAspectRatio = Some(<<"1", "6", ":", "9">>)
    /\ finalPrompt = <<"X", " ", " ", "-", "-", "a", "r", " ", "1", "6", ":", "9">>

\* C16: when useFaceReference is true, exactly one face clause is appended
\* after the description: the single-subject clause when subjectCount <= 1
\* (0 included), otherwise the multi-subject clause, worded with the
\* separate-reference phrase when useSeparateReferences is true and with the
\* shared-reference phrase when it is false; useSeparateReferences has no
\* effect on the assembled prompt in any other case.
C16_OneFaceClause ==
    [][ /\ (Assembles /\ useFaceReference')
              => LET clause ==
                         IF subjectCount' <= 1 THEN SingleSubjectClause
                         ELSE IF useSeparateReferences'
                              THEN MultiSubjectHead \o SeparateReferencePhrase
                                       \o MultiSubjectTail
                              ELSE MultiSubjectHead \o SharedReferencePhrase
                                       \o MultiSubjectTail
                 IN  /\ FaceClauses(finalPrompt') = 1
                     /\ IsHeadThenDirective(finalPrompt',
                                            detailedPrompt'[1] \o <<" ">> \o clause)
        /\ ~(useFaceReference' /\ subjectCount' > 1)
              => AssemblePrompt(detailedPrompt', subjectCount', aspectRatio',
                                originalAspectRatio', useFaceReference', TRUE)
                 = AssemblePrompt(detailedPrompt', subjectCount', aspectRatio',
                                  originalAspectRatio', useFaceReference', FALSE) ]_vars

\* the shared-reference wording was chosen for two subjects
C16_Witness ==
    /\ lastOp.op = "toggleSeparateReferences"
    /\ useFaceReference
    /\ ~useSeparateReferences
    /\ subjectCount = 2
    /\ detailedPrompt = Some(<<"X">>)
    /\ \E i \in 1..Len(finalPrompt) : finalPrompt[i] = SharedReferencePhrase[1]

\* C17: the value of the aspect directive is originalAspectRatio when
\* aspectRatio is "Original" and aspectRatio otherwise; when that value is
\* present and not "Original", exactly " --ar <value>" is appended last,
\* after the description and any face clause (description "X", one subject,
\* face reference on, ratio 16:9 give "X <single-subject clause> --ar 16:9");
\* otherwise no directive is appended.
C17_AspectDirectiveLast ==
    [][ /\ Assembles
              => IsHeadThenDirective(
                     finalPrompt',
                     WithFaceClause(detailedPrompt'[1], subjectCount',
                                    useFaceReference', useSeparateReferences'))
        /\ AssemblePrompt(Some(<<"X">>), 1, <<"1", "6", ":", "9">>, None, TRUE, TRUE)
               = <<"X", " ">> \o SingleSubjectClause
                     \o <<" ", "-", "-", "a", "r", " ", "1", "6", ":", "9">> ]_vars

\* the example of the claim, reached by selecting 16:9
C17_Witness ==
    /\ lastOp.op = "selectRatio"
    /\ aspectRatio = <<"1", "6", ":", "9">>
    /\ detailedPrompt = Some(<<"X">>)
    /\ subjectCount = 1
    /\ useFaceReference
    /\ finalPrompt = <<"X", " ">> \o SingleSubjectClause
                         \o <<" ", "-", "-", "a", "r", " ", "1", "6", ":", "9">>

\* C18: after the user has edited the final prompt in the output text box,
\* the edited text is an override: changing the aspect ratio or one of the
\* face-reference toggles does not re-derive or overwrite it.
C18_ManualEditIsOverride ==
    [][ ( /\ lastOp.op = "textChange"
          /\ lastOp'.op \in {"selectRatio", "toggleFaceReference",
                             "toggleSeparateReferences"} )
            => finalPrompt' = lastOp.seq ]_vars

(***************************************************************************)
(* Properties of the aspect-ratio helper.                                  *)
(***************************************************************************)
Divides(d, n) == n % d = 0

Coprime(a, b) ==
    \A d \in 2..(IF a < b THEN a ELSE b) : ~(Divides(d, a) /\ Divides(d, b))

\* the part of s before the first c, and the part after it
RECURSIVE Before(_, _)
Before(s, c) ==
    IF s = <<>> \/ Head(s) = c THEN <<>> ELSE <<Head(s)>> \o Before(Tail(s), c)

RECURSIVE After(_, _)
After(s, c) ==
    IF s = <<>> THEN <<>> ELSE IF Head(s) = c THEN Tail(s) ELSE After(Tail(s), c)

\* r is "a:b" for two positive integers a and b in decimal notation
IsRatioOf(r, a, b) ==
    /\ a > 0
    /\ b > 0
    /\ r = NumToString(a) \o <<":">> \o NumToString(b)

\* C19: for positive integer width and height the helper terminates and
\* stores "a:b" where a = width/g and b = height/g for the greatest common
\* divisor g: a and b are coprime and a * height = b * width; 1920x1080
\* gives "16:9" and 500x500 gives "1:1".
C19_RatioIsReduced ==
    [][ \A f \in imgs :
            (lastOp'.op = "imgOnload" /\ f \notin imgs' /\ f.width > 0 /\ f.height > 0)
            => /\ originalAspectRatio' # None
               /\ LET r == originalAspectRatio'[1]
                      a == ParseInt(Before(r, ":"))
                      b == ParseInt(After(r, ":"))
                  IN  /\ IsRatioOf(r, a, b)
                      /\ a * f.height = b * f.width
                      /\ Coprime(a, b)
                      /\ (f.width = 1920 /\ f.height = 1080)
                             => r = <<"1", "6", ":", "9">>
                      /\ (f.width = 500 /\ f.height = 500)
                             => r = <<"1", ":", "1">> ]_vars

\* the ratio of the 1920x1080 image has been stored
C19_Witness ==
    /\ lastOp.op = "imgOnload"
    /\ imagePreview = Some([name |-> "wide", width |-> 1920, height |-> 1080])
    /\ originalAspectRatio = Some(<<"1", "6", ":", "9">>)

\* C20: when width or height is 0 (both included) the helper never stores a
\* ratio with a zero or non-numeric component as originalAspectRatio that
\* is then appended as an --ar directive: a stored ratio that ends the final
\* prompt is "a:b" with positive integers a and b.
C20_NoDegenerateRatio ==
    LET text == DirectiveText(originalAspectRatio[1])
        n == Len(finalPrompt) - Len(text)
    IN  ( /\ originalAspectRatio # None
          /\ n >= 0
          /\ SubSeq(finalPrompt, n + 1, Len(finalPrompt)) = text )
        => LET r == originalAspectRatio[1]
           IN  IsRatioOf(r, ParseInt(Before(r, ":")), ParseInt(After(r, ":")))

(***************************************************************************)
(* Properties of the remote calls under user actions and late callbacks.   *)
(***************************************************************************)
\* C21: when describeImage fails because the provider's quota is exhausted,
\* the message shown to the user is none of the messages shown for its other
\* failures (blocked content, malformed answer).
C21_QuotaMessageIsDistinct ==
    [][ (lastOp'.op = "describeFailed" /\ lastOp'.seq = <<TransportMessage>>)
            => /\ appError' = lastOp'.str
               /\ \A raw \in DescribeErrors \ {TransportMessage} :
                      appError' # DescribeErrorShown(raw) ]_vars

\* the translations started from the Translate button of the prompt editor
\* that have not returned yet
EditorTranslationsInFlight ==
    (IF editorIsTranslating THEN 1 ELSE 0) + orphanTranslations

\* C22: at most one call started from a control is in flight at any time:
\* the busy flag of a control is up while its call is in flight (describe on
\* upload, generate and translate of the multi-image view), and at most one
\* translation started from the prompt editor is in flight, also across tab
\* switches, clearing the image and logout/login.
C22_OneCallPerControl ==
    /\ describing # None => appIsLoading
    /\ pending # None => isLoading
    /\ EditorTranslationsInFlight <= 1

\* the steps of the access gate and of the tabs
GateOps == {"pinSubmit", "logout", "timer", "selectTab", "tick"}

\* C23: an in-flight describeImage call is never cancelled: a tab switch, a
\* logout or the expiry of the Limited session leaves it in flight, and its
\* answer, whenever it comes, sets the description and the subject count (or
\* the error) and clears the loading flag.
C23_LateDescribeStillApplies ==
    [][ /\ (describing # None /\ lastOp'.op \in GateOps)
            => (describing' = describing /\ appIsLoading' = appIsLoading)
        /\ lastOp'.op = "described"
            => /\ \E resp \in DescribeResponses :
                      /\ resp.prompt = lastOp'.seq
                      /\ detailedPrompt' = Some(resp.prompt)
                      /\ subjectCount' = resp.subjectCount
               /\ ~appIsLoading'
        /\ lastOp'.op = "describeFailed"
            => (appError' = lastOp'.str /\ ~appIsLoading') ]_vars

\* the answer of a describe call arrived while nobody is logged in, a
\* session length after the start
C23_Witness ==
    /\ lastOp.op = "described"
    /\ authStatus = "unauthenticated"
    /\ now >= SessionMs
    /\ detailedPrompt = Some(<<"X">>)
    /\ subjectCount = 2
    /\ ~appIsLoading

\* C24: when undo or redo moved the cursor while an editImages call was in
\* flight, the push of the completed call truncates after the cursor as it is
\* at completion: the snapshots that were undone are discarded and the new
\* snapshot directly follows the one the user is viewing.
C24_LatePushFollowsViewedSnapshot ==
    [][ ( /\ lastOp'.op = "generated"
          /\ pending # None
          /\ pending[1].historyIndex # historyIndex )
            => /\ Len(history') = historyIndex + 2
               /\ SubSeq(history', 1, historyIndex + 1)
                      = SubSeq(history, 1, historyIndex + 1)
               /\ history'[historyIndex + 2] = NanoOutput(lastOp'.seq)
               /\ historyIndex' = historyIndex + 1 ]_vars

\* C25: whenever no description is present (detailedPrompt is null: before
\* the first upload, during a describe call, after the image is cleared,
\* after a describe error), finalPrompt is the empty string; a translation
\* that completes after the image was cleared or replaced does not put the
\* old image's text into finalPrompt.
C25_NoPromptWithoutDescription ==
    detailedPrompt = None => finalPrompt = <<>>

\* C26: once the user has selected an aspect ratio for the current image it
\* stays selected until the user selects another one or the image is
\* cleared; the image-load callback never resets the selection, whatever the
\* order in which the describe answer and the image load complete.
C26_SelectedRatioStays ==
    [][ (aspectRatio # Original /\ aspectRatio' # aspectRatio)
            => lastOp'.op \in {"selectRatio", "reset"} ]_vars

(***************************************************************************)
(* Properties of the multi-image uploader.                                 *)
(***************************************************************************)
\* C27: in the multi-image uploader the previews and the files stay
\* index-aligned under every order of file-read completions and removals:
\* previews is never longer than files, previews[i] is the preview of
\* files[i], and the list reported to the parent is the list of the uploader,
\* so that a removal takes the same image from all three.
C27_PreviewsAlignedWithFiles ==
    /\ Len(previews) <= Len(uploaderFiles)
    /\ \A i \in 1..Len(previews) : previews[i] = DataUrl(uploaderFiles[i])
    /\ files = uploaderFiles

(***************************************************************************)
(* Properties of the describe failure, the snapshots and the logout.       *)
(***************************************************************************)
\* C28: after a describeImage failure has been reported, the image preview
\* and the image file stay null, and the description empty, until the next
\* upload or reset: no file-read or image-load callback of the failed upload
\* repopulates the preview.
C28_FailedUploadLeavesNoPreview ==
    [][ (appError # NoValue /\ lastOp'.op \notin {"upload", "reset"})
            => /\ imagePreview' = None
               /\ imageFile' = None
               /\ detailedPrompt' = None ]_vars

\* C29: every snapshot stored in the history contains at least one result
\* (a successful editImages never yields an empty list), so whenever the
\* history is non-empty the results panel with its undo/redo controls is
\* shown for the current snapshot.
C29_SnapshotsAreNonEmpty ==
    /\ \A i \in 1..Len(history) : Len(history[i]) > 0
    /\ Len(history) > 0 => ResultsPanelShown

\* the state of the prompt feature that App holds
PromptFeatureState ==
    <<imageFile, imagePreview, detailedPrompt, subjectCount, finalPrompt,
      aspectRatio, originalAspectRatio, useFaceReference,
      useSeparateReferences, appIsLoading, appError>>

\* a logout, manual or by expiry, changes the access tier and the two
\* persisted entries and leaves the tab and the prompt feature alone
LogoutFrame ==
    lastOp'.op \in {"logout", "timer"}
        => /\ authStatus' = "unauthenticated"
           /\ ssAuthStatus' = NoValue
           /\ ssExpiry' = None
           /\ UNCHANGED <<activeTab, pinError, PromptFeatureState>>

LoggedIn == lastOp'.op = "pinSubmit" /\ authStatus' # "unauthenticated"

\* C30 as stated: logout (manual or by expiry) changes only the access tier
\* and the two persisted session entries; the active tab and all
\* prompt-feature state are left unchanged and are still present after the
\* next login.
C30_LogoutKeepsTabAndPromptState ==
    [][ /\ LogoutFrame
        /\ LoggedIn => UNCHANGED <<activeTab, PromptFeatureState>> ]_vars

\* C30, amended: logout (manual or by expiry) changes only the access tier
\* and the two persisted session entries of App's state; the active tab and
\* all prompt-feature state are left unchanged by it, the next login leaves
\* the prompt-feature state unchanged, and it keeps the active tab unless it
\* is a Limited login, which selects the JIPLAK_PROMPT tab.
C30_LogoutKeepsPromptState ==
    [][ /\ LogoutFrame
        /\ LoggedIn
            => /\ UNCHANGED PromptFeatureState
               /\ activeTab' = IF authStatus' = "limited" THEN "jiplak"
                               ELSE activeTab ]_vars

\* a Limited login after a logout on the NANO_BANANA tab: the described image
\* and the chosen ratio are still there, the tab is JIPLAK_PROMPT
C30_Witness ==
    /\ lastOp.op = "pinSubmit"
    /\ lastOp.str = "nano"
    /\ authStatus = "limited"
    /\ activeTab = "jiplak"
    /\ detailedPrompt = Some(<<"X">>)
    /\ imagePreview # None
    /\ aspectRatio = <<"1", "6", ":", "9">>
    /\ finalPrompt # <<>>

====
